---------------------------- MODULE Spec2Model ----------------------------
(***************************************************************************)
(* Model of src/image.py: the Clifford attractor sampler clifford_fast,    *)
(* the per-frame pass of animate (sample, histogram2d, log1p), the quick   *)
(* test test_single_frame and the video driver create_fast_clifford_video  *)
(* with its MP4 save and GIF fallback.                                     *)
(*                                                                         *)
(* Reals are float64 in the program.  The model keeps the structure of     *)
(* the format (a finite range, +inf, -inf, nan) with a fixed-point         *)
(* resolution of 1/Unit and a reduced finite range FMax; every arithmetic  *)
(* operation of the source goes through FAdd / FMul / Sin / Cos below.     *)
(***************************************************************************)
EXTENDS Integers, Sequences, FiniteSets

(***************************************************************************)
(* Bounds of the model.                                                    *)
(***************************************************************************)
\* fixed-point resolution: the real r is the integer r * Unit
Unit == 100
\* stands for n_points = 5000 (lines 40, 147)
NPoints == 2
\* stands for n_iter = 100 (lines 41, 147)
NIter == 2
\* stands for bins = 800 (lines 42, 154)
Bins == 2
\* number of states of the process-wide random generator
RngMod == 8
\* largest duration_seconds and fps given to create_fast_clifford_video
MaxDuration == 3
MaxFps == 2
\* largest number of frames the interactive preview (plt.show) draws
MaxPreview == 2

(***************************************************************************)
(* float64: finite values, the two infinities and nan.                     *)
(***************************************************************************)
FMax == 100 * Unit
PosInf == FMax + 1
NegInf == 0 - (FMax + 1)
NaN == FMax + 2

IsFinite(v) == (0 - FMax) <= v /\ v <= FMax

Abs(v) == IF v < 0 THEN 0 - v ELSE v

\* the result of an operation whose exact value is r: overflow gives an infinity
FRound(r) == IF r > FMax THEN PosInf ELSE IF r < 0 - FMax THEN NegInf ELSE r

Sign(v) == IF v > 0 THEN 1 ELSE IF v < 0 THEN -1 ELSE 0

\* p * q
FMul(p, q) ==
    IF p = NaN \/ q = NaN THEN NaN
    ELSE IF ~IsFinite(p) \/ ~IsFinite(q)
         THEN (IF p = 0 \/ q = 0 THEN NaN
               ELSE IF Sign(p) * Sign(q) > 0 THEN PosInf ELSE NegInf)
         ELSE FRound((p * q) \div Unit)

\* p + q
FAdd(p, q) ==
    IF p = NaN \/ q = NaN THEN NaN
    ELSE IF ~IsFinite(p) /\ ~IsFinite(q) THEN (IF p = q THEN p ELSE NaN)
    ELSE IF ~IsFinite(p) THEN p
    ELSE IF ~IsFinite(q) THEN q
    ELSE FRound(p + q)

Pi == (314 * Unit) \div 100
TwoPi == 2 * Pi
HalfPi == Pi \div 2

\* sin on [0, Pi] (Bhaskara's rational form, exact at 0, Pi/2 and Pi)
SinHalf(r) == (16 * r * (Pi - r) * Unit) \div (5 * Pi * Pi - 4 * r * (Pi - r))

\* np.sin: nan for a non-finite argument, a value of [-1, 1] otherwise
Sin(v) ==
    IF ~IsFinite(v) THEN NaN
    ELSE LET r == v % TwoPi
         IN IF r <= Pi THEN SinHalf(r) ELSE 0 - SinHalf(r - Pi)

\* np.cos
Cos(v) == IF ~IsFinite(v) THEN NaN ELSE Sin(v + HalfPi)


(***************************************************************************)
(* Constants of the program.                                               *)
(***************************************************************************)
\* np.random.uniform(-0.5, 0.5, ...)
SeedLo == 0 - (Unit \div 2)
SeedHi == Unit \div 2
\* t = np.linspace(0, 6*np.pi, total_frames); a_values = -1.4 + 0.8 * np.sin(t)
SixPi == 6 * Pi
BaseA == (0 - 14 * Unit) \div 10
Amplitude == (8 * Unit) \div 10
\* b, c, d = 1.6, 1.0, 0.7
FixedB == (16 * Unit) \div 10
FixedC == Unit
FixedD == (7 * Unit) \div 10
\* range=[[-3, 3], [-3, 3]]
RangeLo == 0 - 3 * Unit
RangeHi == 3 * Unit

(***************************************************************************)
(* The process-wide random generator behind np.random.uniform: a           *)
(* deterministic function of its state, which every draw advances.         *)
(***************************************************************************)
RngNext(s) == (5 * s + 3) % RngMod

\* low + (high - low) * u with u = s / RngMod in [0, 1)
RngValue(s) == SeedLo + ((SeedHi - SeedLo) * s) \div RngMod

RECURSIVE RngAfter(_, _)
RngAfter(s, n) == IF n <= 0 THEN s ELSE RngAfter(RngNext(s), n - 1)

\* np.random.uniform(-0.5, 0.5, n) drawn from state s
Uniform(s, n) == [k \in 1..n |-> RngValue(RngAfter(s, k - 1))]

(***************************************************************************)
(* clifford_fast: one step of the map, and the slice store.                *)
(***************************************************************************)
\* a slip in line 21: c + np.cos(...) for c * np.cos(...)
XNew_Plus(pa, pcc, vx, vy) ==
    FAdd(Sin(FMul(pa, vy)), FAdd(pcc, Cos(FMul(pa, vx))))

\* x_new = np.sin(a * y) + c * np.cos(a * x)
XNew(pa, pcc, vx, vy) == FAdd(Sin(FMul(pa, vy)), FMul(pcc, Cos(FMul(pa, vx))))

\* y_new = np.sin(b * x) + d * np.cos(b * y)
YNew(pb, pd, vx, vy) == FAdd(Sin(FMul(pb, vx)), FMul(pd, Cos(FMul(pb, vy))))

\* start_idx = i * n_points
StartIdx(it, n) == it * n

\* end_idx = (i + 1) * n_points
EndIdx(it, n) == (it + 1) * n

\* arr[start:end] = vals (0-based half-open slice; arr is 1-based here)
SliceAssign(arr, start, end, vals) ==
    [k \in 1..Len(arr) |->
        IF start < k /\ k <= end THEN vals[k - start] ELSE arr[k]]

\* np.zeros(n)
Zeros(n) == [k \in 1..n |-> 0]

(***************************************************************************)
(* np.histogram2d(x_points, y_points, bins=bins, range=[[-3,3],[-3,3]])    *)
(***************************************************************************)
\* the bin edges: np.linspace(-3, 3, bins + 1)
Edge(k, nb) == RangeLo + (k * (RangeHi - RangeLo)) \div nb

\* np.searchsorted(edges, v, side='right'): the number of edges <= v
\* (nan sorts after every edge)
SearchRight(v, nb) == Cardinality({k \in 0..nb : Edge(k, nb) <= v})

\* a histogram that clamps an outlier into the nearest edge bin
BinIndex_Clamp(v, nb) ==
    LET s == SearchRight(v, nb)
    IN IF s < 1 THEN 1 ELSE IF s > nb THEN nb ELSE s

\* the bin of v among 0..nb+1: 0 and nb+1 hold the outliers, and a value on
\* the last edge belongs to the last bin
BinIndex(v, nb) ==
    IF v = Edge(nb, nb) THEN SearchRight(v, nb) - 1 ELSE SearchRight(v, nb)

\* the counts of the core bins 1..nb (the outlier bins are cut off)
Histogram2d(xs, ys, nb) ==
    [p \in 1..nb |-> [q \in 1..nb |->
        Cardinality({k \in 1..Len(xs) :
            BinIndex(xs[k], nb) = p /\ BinIndex(ys[k], nb) = q})]]

(***************************************************************************)
(* np.log1p on counts, hist.T and hist.max()                               *)
(***************************************************************************)
\* 1000 * ln(n) for n = 1..40
LnTable ==
    << 0, 693, 1098, 1386, 1609, 1791, 1945, 2079, 2197, 2302,
       2397, 2484, 2564, 2639, 2708, 2772, 2833, 2890, 2944, 2995,
       3044, 3091, 3135, 3178, 3218, 3258, 3295, 3332, 3367, 3401,
       3433, 3465, 3496, 3526, 3555, 3583, 3610, 3637, 3663, 3688 >>

\* np.log for np.log1p: log(0) is -inf
Log1p_Log(k) == IF k = 0 THEN NegInf ELSE (LnTable[k] * Unit) \div 1000

\* np.log1p(k) for a count k
Log1p(k) == (LnTable[k + 1] * Unit) \div 1000

RECURSIVE SeqMax(_)
SeqMax(s) ==
    IF Len(s) = 1 THEN s[1]
    ELSE LET m == SeqMax(Tail(s)) IN IF s[1] >= m THEN s[1] ELSE m

\* hist.max()
HistMax(h) == SeqMax([p \in 1..Len(h) |-> SeqMax(h[p])])

RECURSIVE SeqSum(_)
SeqSum(s) == IF Len(s) = 0 THEN 0 ELSE s[1] + SeqSum(Tail(s))

\* hist.sum()
HistSum(h) == SeqSum([p \in 1..Len(h) |-> SeqSum(h[p])])

\* np.log1p(hist.T)
LogField(h) == [p \in 1..Len(h) |-> [q \in 1..Len(h) |-> Log1p(h[q][p])]]

(***************************************************************************)
(* The sweep schedule of create_fast_clifford_video.                       *)
(***************************************************************************)
\* np.linspace(..., endpoint=False)
Linspace_NoEndpoint(start, stop, num) ==
    [k \in 1..num |-> start + ((k - 1) * (stop - start)) \div num]

\* np.linspace(start, stop, num), endpoint included: num = 1 gives [start]
Linspace(start, stop, num) ==
    [k \in 1..num |->
        IF num = 1 THEN start
        ELSE IF k = num THEN stop
        ELSE start + ((k - 1) * (stop - start)) \div (num - 1)]

\* a_values = -1.4 + 0.8 * np.sin(t) for t = np.linspace(0, 6*np.pi, total_frames)
AValues(num) ==
    LET t == Linspace(0, SixPi, num)
    IN [k \in 1..num |-> FAdd(BaseA, FMul(Amplitude, Sin(t[k])))]

(***************************************************************************)
(* State.                                                                  *)
(***************************************************************************)
VARIABLES
    pc,                \* position of the program
    stage,             \* who runs the pass: "fn", "test", "preview", "mp4", "gif"
    rng,               \* state of the process-wide random generator
    \* clifford_fast(n_points, a, b, c, d, n_iter) and its locals
    n_points, a, b, c, d, n_iter, x, y, all_x, all_y, i,
    \* the caller of clifford_fast (animate, test_single_frame)
    bins, frame, x_points, y_points, hist, field, vmin, vmax,
    \* create_fast_clifford_video(duration_seconds, fps)
    duration_seconds, fps, total_frames, a_values,
    seq,               \* position of the running drive in its frame sequence
    previews,          \* frames the preview has drawn
    mp4_raised,        \* the MP4 try block raised
    gif_attempts,      \* times the GIF save was started
    gif_raised,        \* the GIF try block raised
    result,            \* "none", "anim" (returned), "raised" (an exception left)
    \* history
    seed_x, seed_y,    \* the seeds drawn by the running clifford_fast call
    writes,            \* stores into each slot of all_x / all_y
    driven,            \* frame indices animate was called with, whole run
    drive,             \* the same, for the running drive
    rng_start,         \* the generator's state when the video function began
    rng_pass           \* the generator's state when the running pass began

callVars == <<n_points, a, b, c, d, n_iter>>
loopVars == <<x, y, all_x, all_y, i, seed_x, seed_y, writes>>
passVars == <<bins, frame, x_points, y_points, hist, field, vmin, vmax>>
configVars == <<duration_seconds, fps, total_frames, a_values>>
driveVars == <<seq, previews, driven, drive>>
saveVars == <<mp4_raised, gif_attempts, gif_raised, result>>

vars == <<pc, stage, rng, callVars, loopVars, passVars, configVars,
          driveVars, saveVars, rng_start, rng_pass>>

\* the values common to every initial state
InitRest ==
    /\ x = <<>> /\ y = <<>> /\ all_x = <<>> /\ all_y = <<>> /\ i = 0
    /\ seed_x = <<>> /\ seed_y = <<>> /\ writes = <<>>
    /\ bins = Bins /\ frame = -1
    /\ x_points = <<>> /\ y_points = <<>> /\ hist = <<>> /\ field = <<>>
    /\ vmin = 0 /\ vmax = 0
    /\ duration_seconds = 0 /\ fps = 0 /\ total_frames = 0 /\ a_values = <<>>
    /\ seq = 0 /\ previews = 0 /\ driven = <<>> /\ drive = <<>>
    /\ mp4_raised = FALSE /\ gif_attempts = 0 /\ gif_raised = FALSE
    /\ result = "none"

(***************************************************************************)
(* clifford_fast                                                           *)
(***************************************************************************)
\* lines 12-17: draw the seeds (x first, then y) and allocate the record
Seed ==
    /\ pc = "seed"
    /\ x' = Uniform(rng, n_points)
    /\ y' = Uniform(RngAfter(rng, n_points), n_points)
    /\ rng' = RngAfter(rng, 2 * n_points)
    /\ all_x' = Zeros(n_points * n_iter)
    /\ all_y' = Zeros(n_points * n_iter)
    /\ i' = 0
    /\ seed_x' = x' /\ seed_y' = y'
    /\ writes' = Zeros(n_points * n_iter)
    /\ pc' = "loop"
    /\ UNCHANGED <<stage, callVars, passVars, configVars, driveVars, saveVars,
                   rng_start, rng_pass>>

\* the store placed before x, y = x_new, y_new: the batch stored is the old one
Iterate_StoreBeforeUpdate ==
    /\ pc = "loop"
    /\ i < n_iter
    /\ x' = [k \in 1..n_points |-> XNew(a, c, x[k], y[k])]
    /\ y' = [k \in 1..n_points |-> YNew(b, d, x[k], y[k])]
    /\ all_x' = SliceAssign(all_x, StartIdx(i, n_points), EndIdx(i, n_points), x)
    /\ all_y' = SliceAssign(all_y, StartIdx(i, n_points), EndIdx(i, n_points), y)
    /\ writes' = [k \in 1..Len(writes) |->
                    IF StartIdx(i, n_points) < k /\ k <= EndIdx(i, n_points)
                    THEN writes[k] + 1 ELSE writes[k]]
    /\ i' = i + 1
    /\ UNCHANGED <<pc, stage, rng, callVars, seed_x, seed_y, passVars,
                   configVars, driveVars, saveVars, rng_start, rng_pass>>

\* lines 19-29: one iteration of the loop over range(n_iter)
Iterate ==
    /\ pc = "loop"
    /\ i < n_iter
    /\ LET x_new == [k \in 1..n_points |-> XNew(a, c, x[k], y[k])]
           y_new == [k \in 1..n_points |-> YNew(b, d, x[k], y[k])]
           start_idx == StartIdx(i, n_points)
           end_idx == EndIdx(i, n_points)
       IN /\ x' = x_new
          /\ y' = y_new
          /\ all_x' = SliceAssign(all_x, start_idx, end_idx, x_new)
          /\ all_y' = SliceAssign(all_y, start_idx, end_idx, y_new)
          /\ writes' = [k \in 1..Len(writes) |->
                          IF start_idx < k /\ k <= end_idx
                          THEN writes[k] + 1 ELSE writes[k]]
    /\ i' = i + 1
    /\ UNCHANGED <<pc, stage, rng, callVars, seed_x, seed_y, passVars,
                   configVars, driveVars, saveVars, rng_start, rng_pass>>

\* return x, y (the last batch) for return all_x, all_y
Return_LastBatch ==
    /\ pc = "loop"
    /\ i = n_iter
    /\ x_points' = x
    /\ y_points' = y
    /\ pc' = "hist"
    /\ UNCHANGED <<stage, rng, callVars, loopVars, bins, frame, hist, field,
                   vmin, vmax, configVars, driveVars, saveVars, rng_start,
                   rng_pass>>

\* line 31 and lines 72 / 147: return all_x, all_y to the caller
Return ==
    /\ pc = "loop"
    /\ i = n_iter
    /\ x_points' = all_x
    /\ y_points' = all_y
    /\ pc' = "hist"
    /\ UNCHANGED <<stage, rng, callVars, loopVars, bins, frame, hist, field,
                   vmin, vmax, configVars, driveVars, saveVars, rng_start,
                   rng_pass>>

(***************************************************************************)
(* The rest of the pass: animate (lines 75-81), test_single_frame          *)
(* (lines 154-159).                                                        *)
(***************************************************************************)
\* counts added to the grid of the pass before
Histogram_Accumulate ==
    /\ pc = "hist"
    /\ LET h == Histogram2d(x_points, y_points, bins)
       IN hist' = IF hist = <<>> THEN h
                  ELSE [p \in 1..bins |-> [q \in 1..bins |-> hist[p][q] + h[p][q]]]
    /\ pc' = "show"
    /\ UNCHANGED <<stage, rng, callVars, loopVars, bins, frame, x_points,
                   y_points, field, vmin, vmax, configVars, driveVars,
                   saveVars, rng_start, rng_pass>>

\* lines 75-76 / 154
Histogram ==
    /\ pc = "hist"
    /\ hist' = Histogram2d(x_points, y_points, bins)
    /\ pc' = "show"
    /\ UNCHANGED <<stage, rng, callVars, loopVars, bins, frame, x_points,
                   y_points, field, vmin, vmax, configVars, driveVars,
                   saveVars, rng_start, rng_pass>>

\* lines 79-81: imshow(np.log1p(hist.T), vmin=0, vmax=np.log1p(hist.max()))
ImshowFrame ==
    /\ pc = "show"
    /\ stage # "test"
    /\ field' = LogField(hist)
    /\ vmin' = 0
    /\ vmax' = Log1p(HistMax(hist))
    /\ pc' = "drawn"
    /\ UNCHANGED <<stage, rng, callVars, loopVars, bins, frame, x_points,
                   y_points, hist, configVars, driveVars, saveVars, rng_start,
                   rng_pass>>

\* one per-frame pass on given arguments
InitFn ==
    /\ pc = "seed"
    /\ stage = "fn"
    /\ rng \in 0..(RngMod - 1)
    /\ n_points \in 0..NPoints
    /\ n_iter \in 0..NIter
    /\ a \in {BaseA, 60 * Unit}
    /\ b \in {FixedB}
    /\ c \in {FixedC, 3 * Unit}
    /\ d \in {FixedD, 3 * Unit}
    /\ rng_start = rng
    /\ rng_pass = rng
    /\ InitRest

NextFn == Seed \/ Iterate \/ Return \/ Histogram \/ ImshowFrame

SpecFn == InitFn /\ [][NextFn]_vars

(***************************************************************************)
(* Properties of one pass (specification SpecFn).                          *)
(***************************************************************************)
\* clifford_fast has returned its record to the caller
Returned == pc \in {"hist", "show", "drawn"}

\* the state of a seed (vx, vy) after j applications of the map
RECURSIVE Orbit(_, _, _)
Orbit(j, vx, vy) ==
    IF j = 0 THEN <<vx, vy>>
    ELSE LET prev == Orbit(j - 1, vx, vy)
         IN <<XNew(a, c, prev[1], prev[2]), YNew(b, d, prev[1], prev[2])>>

\* C1: for n_points >= 1 and n_iter >= 1 the x array and the y array that
\* clifford_fast returns both have length exactly n_points * n_iter.
C1_RecordLength ==
    (Returned /\ n_points >= 1 /\ n_iter >= 1) =>
        /\ Len(x_points) = n_points * n_iter
        /\ Len(y_points) = n_points * n_iter

\* a full-size call has returned a record longer than one batch
C1_Witness ==
    /\ pc = "hist"
    /\ n_points = NPoints /\ n_iter = NIter
    /\ Len(x_points) = NPoints * NIter
    /\ NPoints * NIter > NPoints

\* C9: after clifford_fast returns, slot i * n_points + k of the record holds
\* seed k's state after exactly i + 1 applications of the map, and every slot
\* has been stored into exactly once (so the slot ranges of the iterations do
\* not overlap and the seed state itself is in no slot).
C9_SlotLayout ==
    Returned =>
        /\ \A it \in 0..(n_iter - 1) : \A k \in 1..n_points :
              LET st == Orbit(it + 1, seed_x[k], seed_y[k])
              IN /\ x_points[it * n_points + k] = st[1]
                 /\ y_points[it * n_points + k] = st[2]
        /\ \A k \in 1..Len(writes) : writes[k] = 1
        /\ Len(writes) = Len(x_points)

\* a returned record whose second iteration's slot differs from the first's,
\* which differs from the seed
C9_Witness ==
    /\ pc = "hist"
    /\ n_points = NPoints /\ n_iter = NIter
    /\ NPoints > 1 /\ NIter > 1
    /\ x_points[NPoints + 1] = Orbit(2, seed_x[1], seed_y[1])[1]
    /\ x_points[NPoints + 1] # x_points[1]
    /\ x_points[1] # seed_x[1]

\* the state that slot k of the record was computed from: the seed for the
\* first iteration, the slot n_points earlier otherwise
PrevX(k) == IF k <= n_points THEN seed_x[k] ELSE all_x[k - n_points]
PrevY(k) == IF k <= n_points THEN seed_y[k] ELSE all_y[k - n_points]

\* the four products of one step from (vx, vy) are finite
ProductsFinite(vx, vy) ==
    /\ IsFinite(FMul(a, vx)) /\ IsFinite(FMul(a, vy))
    /\ IsFinite(FMul(b, vx)) /\ IsFinite(FMul(b, vy))

Bounded(k) ==
    /\ IsFinite(all_x[k]) /\ IsFinite(all_y[k])
    /\ Abs(all_x[k]) <= Unit + Abs(c)
    /\ Abs(all_y[k]) <= Unit + Abs(d)

\* the slots stored so far
Stored == 1..(i * n_points)

\* C7 as stated: from every finite state and finite parameters one step gives
\* a finite state with |x'| <= 1 + |c| and |y'| <= 1 + |d|, so every point of
\* the record satisfies these bounds.
C7_Original ==
    pc = "loop" => \A k \in Stored : Bounded(k)

\* C7 as amended: the step gives a finite state within the bounds whenever
\* the state it starts from is finite and the products a*x, a*y, b*x, b*y do
\* not overflow the floating-point range.
C7_BoundedStep ==
    pc = "loop" =>
        \A k \in Stored :
            (IsFinite(PrevX(k)) /\ IsFinite(PrevY(k))
             /\ ProductsFinite(PrevX(k), PrevY(k))) => Bounded(k)

\* a later iteration stored a point with |x| > 1 computed from finite products
C7_Witness ==
    /\ pc = "loop"
    /\ i = NIter
    /\ \E k \in Stored :
          /\ ProductsFinite(PrevX(k), PrevY(k))
          /\ Abs(all_x[k]) > Unit
          /\ k > n_points

InRange(v) == RangeLo <= v /\ v <= RangeHi

\* the recorded points with both coordinates inside the binning range
PointsInRange ==
    {k \in 1..Len(x_points) : InRange(x_points[k]) /\ InRange(y_points[k])}

\* C3: the density grid sums to at most the record length, to exactly that
\* length iff every recorded point lies in [-3,3] x [-3,3], and a point
\* outside the range is counted in no cell.
C3_DensitySum ==
    pc \in {"show", "drawn"} =>
        /\ HistSum(hist) <= Len(x_points)
        /\ (HistSum(hist) = Len(x_points)) <=>
               (Cardinality(PointsInRange) = Len(x_points))
        /\ HistSum(hist) = Cardinality(PointsInRange)

\* a grid that counted some points and dropped others, one of them finite
\* and right of the range
C3_Witness ==
    /\ pc = "show"
    /\ 0 < HistSum(hist)
    /\ HistSum(hist) < Len(x_points)
    /\ \E k \in 1..Len(x_points) : IsFinite(x_points[k]) /\ x_points[k] > RangeHi

\* C8: each compressed cell is log(1 + count) of its own cell, is 0 exactly
\* when the count is 0, a larger count never gives a smaller value, and in
\* the frame's display every cell lies in [0, log(1 + max count)].
C8_Compression ==
    pc = "drawn" =>
        LET cells == (1..bins) \X (1..bins)
        IN /\ \A cell \in cells :
                 LET cnt == hist[cell[2]][cell[1]]
                     val == field[cell[1]][cell[2]]
                 IN /\ val = (LnTable[cnt + 1] * Unit) \div 1000
                    /\ (val = 0) <=> (cnt = 0)
                    /\ vmin <= val /\ val <= vmax
           /\ \A c1, c2 \in cells :
                 hist[c1[2]][c1[1]] <= hist[c2[2]][c2[1]] =>
                     field[c1[1]][c1[2]] <= field[c2[1]][c2[2]]
           /\ vmin = 0
           /\ \E cell \in cells : field[cell[1]][cell[2]] = vmax

\* a compressed field with an empty cell, a cell of count 1 and the maximum
\* at a cell of larger count
C8_Witness ==
    /\ pc = "drawn"
    /\ \E p, q \in 1..bins : hist[p][q] > 1 /\ field[q][p] = vmax
    /\ \E p, q \in 1..bins : hist[p][q] = 0 /\ field[q][p] = 0
    /\ \E p, q \in 1..bins : hist[p][q] = 1 /\ field[q][p] > 0

(***************************************************************************)
(* The program: test_single_frame() (line 171), then                       *)
(* create_fast_clifford_video(duration_seconds, fps) (line 195).           *)
(***************************************************************************)
\* line 147: clifford_fast(5000, -1.4, 1.6, 1.0, 0.7, 100)
TestSingleFrame ==
    /\ pc = "main_test"
    /\ stage' = "test"
    /\ n_points' = NPoints /\ n_iter' = NIter
    /\ a' = BaseA /\ b' = FixedB /\ c' = FixedC /\ d' = FixedD
    /\ pc' = "seed"
    /\ UNCHANGED <<rng, loopVars, passVars, configVars, driveVars, saveVars,
                   rng_start, rng_pass>>

RECURSIVE SeqMin(_)
SeqMin(s) ==
    IF Len(s) = 1 THEN s[1]
    ELSE LET m == SeqMin(Tail(s)) IN IF s[1] <= m THEN s[1] ELSE m

\* line 159: imshow(np.log1p(hist.T)) scales to the data; the test ends and
\* the script goes on to the video
ImshowTest ==
    /\ pc = "show"
    /\ stage = "test"
    /\ field' = LogField(hist)
    /\ vmin' = SeqMin([p \in 1..Len(hist) |-> SeqMin(field'[p])])
    /\ vmax' = SeqMax([p \in 1..Len(hist) |-> SeqMax(field'[p])])
    /\ pc' = "main_video"
    /\ UNCHANGED <<stage, rng, callVars, loopVars, bins, frame, x_points,
                   y_points, hist, configVars, driveVars, saveVars, rng_start,
                   rng_pass>>

\* lines 36-49: total_frames, the constants of the run and the schedule;
\* np.linspace raises ValueError for a negative number of samples
CreateVideo ==
    /\ pc = "main_video"
    /\ \E dur \in (-1)..MaxDuration, f \in 0..MaxFps :
          /\ duration_seconds' = dur
          /\ fps' = f
          /\ total_frames' = dur * f
          /\ IF dur * f < 0
             THEN /\ a_values' = <<>>
                  /\ result' = "raised"
                  /\ pc' = "done"
             ELSE /\ a_values' = AValues(dur * f)
                  /\ result' = result
                  /\ pc' = "anim"
    /\ stage' = "video"
    /\ n_points' = NPoints /\ n_iter' = NIter /\ bins' = Bins
    /\ b' = FixedB /\ c' = FixedC /\ d' = FixedD
    /\ rng_start' = rng
    /\ UNCHANGED <<rng, a, loopVars, frame, x_points, y_points, hist, field,
                   vmin, vmax, driveVars, mp4_raised, gif_attempts,
                   gif_raised, rng_pass>>

\* lines 103-104: FuncAnimation(fig, animate, frames=total_frames,
\* interval=1000/fps, blit=True); 1000/fps raises ZeroDivisionError for fps = 0
CreateAnimation ==
    /\ pc = "anim"
    /\ IF fps = 0
       THEN /\ result' = "raised"
            /\ pc' = "done"
            /\ UNCHANGED <<stage, seq, drive>>
       ELSE /\ result' = result
            /\ pc' = "preview"
            /\ stage' = "preview"
            /\ seq' = 0
            /\ drive' = <<>>
    /\ UNCHANGED <<rng, callVars, loopVars, passVars, configVars, previews,
                   driven, mp4_raised, gif_attempts, gif_raised, rng_start,
                   rng_pass>>

\* A drive of the animation (the preview, a save) draws frame 0 once to set
\* the figure up and then the frames 0, 1, ..., total_frames - 1: item 0 of
\* its sequence is the first draw, item k >= 1 is frame k - 1.  With no
\* frame there is nothing to draw.
DriveLen == IF total_frames > 0 THEN total_frames + 1 ELSE 0

FrameOf(item) == IF item = 0 THEN 0 ELSE item - 1

\* lines 60-72: animate(frame) up to the call of clifford_fast
Animate(f) ==
    /\ frame' = f
    /\ a' = a_values[f + 1]
    /\ driven' = Append(driven, f)
    /\ drive' = Append(drive, f)
    /\ rng_pass' = rng
    /\ pc' = "seed"

\* line 107, plt.show(): the window draws the next item of the sequence
PreviewDraw ==
    /\ pc = "preview"
    /\ previews < MaxPreview
    /\ seq < DriveLen
    /\ Animate(FrameOf(seq))
    /\ previews' = previews + 1
    /\ UNCHANGED <<stage, rng, n_points, b, c, d, n_iter, loopVars, bins,
                   x_points, y_points, hist, field, vmin, vmax, configVars,
                   seq, saveVars, rng_start>>

\* line 107: the sequence is used up and the animation repeats
PreviewRepeat ==
    /\ pc = "preview"
    /\ total_frames > 0
    /\ seq = DriveLen
    /\ seq' = 0
    /\ drive' = <<>>
    /\ UNCHANGED <<pc, stage, rng, callVars, loopVars, passVars, configVars,
                   previews, driven, saveVars, rng_start, rng_pass>>

\* animate returned [im] (line 97): the drive moves to its next item
FrameDrawn ==
    /\ pc = "drawn"
    /\ stage \in {"preview", "mp4", "gif"}
    /\ seq' = seq + 1
    /\ pc' = IF stage = "preview" THEN "preview" ELSE "saving"
    /\ UNCHANGED <<stage, rng, callVars, loopVars, passVars, configVars,
                   previews, driven, drive, saveVars, rng_start, rng_pass>>

\* line 107 returns (the window is closed, or the backend shows nothing);
\* lines 110-119: the try block starts the MP4 save
SaveMp4 ==
    /\ pc = "preview"
    /\ stage' = "mp4"
    /\ seq' = 0
    /\ drive' = <<>>
    /\ pc' = "saving"
    /\ UNCHANGED <<rng, callVars, loopVars, passVars, configVars, previews,
                   driven, saveVars, rng_start, rng_pass>>

\* lines 119 / 134, anim.save: the save draws the next item of the sequence
SaveDraw ==
    /\ pc = "saving"
    /\ seq < DriveLen
    /\ Animate(FrameOf(seq))
    /\ UNCHANGED <<stage, rng, n_points, b, c, d, n_iter, loopVars, bins,
                   x_points, y_points, hist, field, vmin, vmax, configVars,
                   seq, previews, saveVars, rng_start>>

\* lines 117-119 raise (no ffmpeg writer, the encoder fails): line 127
Mp4Raise ==
    /\ pc = "saving"
    /\ stage = "mp4"
    /\ mp4_raised' = TRUE
    /\ pc' = "except"
    /\ UNCHANGED <<stage, rng, callVars, loopVars, passVars, configVars,
                   driveVars, gif_attempts, gif_raised, result, rng_start,
                   rng_pass>>

\* a GIF save that goes on where the MP4 save stopped
GifFallback_Resume ==
    /\ pc = "except"
    /\ gif_attempts' = gif_attempts + 1
    /\ stage' = "gif"
    /\ drive' = <<>>
    /\ pc' = "saving"
    /\ UNCHANGED <<rng, callVars, loopVars, passVars, configVars, seq,
                   previews, driven, mp4_raised, gif_raised, result, rng_start,
                   rng_pass>>

\* lines 128-134: the handler starts the GIF save
GifFallback ==
    /\ pc = "except"
    /\ gif_attempts' = gif_attempts + 1
    /\ stage' = "gif"
    /\ seq' = 0
    /\ drive' = <<>>
    /\ pc' = "saving"
    /\ UNCHANGED <<rng, callVars, loopVars, passVars, configVars, previews,
                   driven, mp4_raised, gif_raised, result, rng_start,
                   rng_pass>>

\* the GIF save without its own try: the exception leaves the function
GifRaise_Escapes ==
    /\ pc = "saving"
    /\ stage = "gif"
    /\ gif_raised' = TRUE
    /\ result' = "raised"
    /\ pc' = "done"
    /\ UNCHANGED <<stage, rng, callVars, loopVars, passVars, configVars,
                   driveVars, mp4_raised, gif_attempts, rng_start, rng_pass>>

\* line 134 raises: lines 136-137 print and fall through to line 139
GifRaise ==
    /\ pc = "saving"
    /\ stage = "gif"
    /\ gif_raised' = TRUE
    /\ pc' = "return"
    /\ UNCHANGED <<stage, rng, callVars, loopVars, passVars, configVars,
                   driveVars, mp4_raised, gif_attempts, result, rng_start,
                   rng_pass>>

\* the save has drawn its whole sequence: lines 121-125 (MP4), 135 (GIF)
SaveDone ==
    /\ pc = "saving"
    /\ seq = DriveLen
    /\ pc' = "return"
    /\ UNCHANGED <<stage, rng, callVars, loopVars, passVars, configVars,
                   driveVars, saveVars, rng_start, rng_pass>>

\* line 139: return anim
ReturnAnim ==
    /\ pc = "return"
    /\ result' = "anim"
    /\ pc' = "done"
    /\ UNCHANGED <<stage, rng, callVars, loopVars, passVars, configVars,
                   driveVars, mp4_raised, gif_attempts, gif_raised, rng_start,
                   rng_pass>>

\* the script starts with an unseeded generator
Init ==
    /\ pc = "main_test"
    /\ stage = "main"
    /\ rng \in 0..(RngMod - 1)
    /\ n_points = 0 /\ n_iter = 0
    /\ a = 0 /\ b = 0 /\ c = 0 /\ d = 0
    /\ rng_start = rng
    /\ rng_pass = rng
    /\ InitRest

Next ==
    \/ TestSingleFrame \/ Seed \/ Iterate \/ Return \/ Histogram
    \/ ImshowTest \/ ImshowFrame
    \/ CreateVideo \/ CreateAnimation
    \/ PreviewDraw \/ PreviewRepeat \/ FrameDrawn
    \/ SaveMp4 \/ SaveDraw \/ Mp4Raise \/ GifFallback \/ GifRaise
    \/ SaveDone \/ ReturnAnim

Spec == Init /\ [][Next]_vars

(***************************************************************************)
(* Properties of the program (specification Spec).                         *)
(***************************************************************************)
\* create_fast_clifford_video has computed its schedule (line 49 is passed)
Scheduled == stage \in {"video", "preview", "mp4", "gif"} /\ total_frames >= 0

\* a pass of animate is running or has just returned
InPass ==
    /\ stage \in {"preview", "mp4", "gif"}
    /\ pc \in {"seed", "loop", "hist", "show", "drawn"}

\* b, c, d of the running pass are the fixed values and a is the schedule's
FrameParameters ==
    InPass => /\ a = a_values[frame + 1]
              /\ b = FixedB /\ c = FixedC /\ d = FixedD

\* C2 as stated: the schedule has length F and frame i gets
\* a = base + amplitude * sin(2*pi * cycles * i / F), b, c, d fixed.
C2_Original ==
    Scheduled =>
        /\ Len(a_values) = total_frames
        /\ \A k \in 0..(total_frames - 1) :
              a_values[k + 1] =
                  BaseA + (Amplitude * Sin((SixPi * k) \div total_frames))
                              \div Unit
        /\ FrameParameters

\* C2 as amended: the schedule has length F and frame i gets
\* a = base + amplitude * sin(2*pi * cycles * i / (F - 1)) for F >= 2 (the
\* last frame is at the full sweep) and a = base for F = 1; b, c, d fixed.
C2_Schedule ==
    Scheduled =>
        /\ Len(a_values) = total_frames
        /\ \A k \in 0..(total_frames - 1) :
              LET t == IF total_frames = 1 THEN 0
                       ELSE (SixPi * k) \div (total_frames - 1)
              IN a_values[k + 1] = BaseA + (Amplitude * Sin(t)) \div Unit
        /\ FrameParameters

\* a pass for frame 1 of a schedule of more than 4 frames, off the base
\* value, whose last frame is back at the base value
C2_Witness ==
    /\ InPass
    /\ total_frames > 4
    /\ frame = 1
    /\ a # BaseA
    /\ a_values[total_frames] = BaseA
    /\ \E k \in 1..total_frames : a_values[k] > BaseA

\* C4 as stated: a configuration with total_frames <= 0 is rejected with an
\* error before anything is computed: the function never goes on to the
\* preview or the save, and never returns the animation.
C4_Original ==
    (stage \in {"video", "preview", "mp4", "gif"} /\ total_frames <= 0) =>
        /\ pc \notin {"preview", "saving", "except", "return"}
        /\ result # "anim"

StrictlyIncreasing(s) == \A k \in 1..(Len(s) - 1) : s[k] < s[k + 1]

PassSeedX(r) == Uniform(r, n_points)
PassSeedY(r) == Uniform(RngAfter(r, n_points), n_points)
PassX(r) ==
    [s \in 1..(n_points * n_iter) |->
        Orbit(((s - 1) \div n_points) + 1,
              PassSeedX(r)[((s - 1) % n_points) + 1],
              PassSeedY(r)[((s - 1) % n_points) + 1])[1]]
PassY(r) ==
    [s \in 1..(n_points * n_iter) |->
        Orbit(((s - 1) \div n_points) + 1,
              PassSeedX(r)[((s - 1) % n_points) + 1],
              PassSeedY(r)[((s - 1) % n_points) + 1])[2]]
PassField(r) == LogField(Histogram2d(PassX(r), PassY(r), bins))

\* a pass of animate has just returned
PassDone == pc = "drawn" /\ stage \in {"preview", "mp4", "gif"}

\* C6 as stated: a pass reads no state that another pass writes, so each
\* frame's field is the one the frame gives when computed alone (with the
\* generator as the function found it), and no pass changes the schedule or
\* the fixed parameters.
C6_Original ==
    PassDone =>
        /\ field = PassField(rng_start)
        /\ a_values = AValues(total_frames)
        /\ b = FixedB /\ c = FixedC /\ d = FixedD

\* C6 as amended: the only state a pass reads that another pass writes is
\* the process-wide random generator, which the seed drawing reads and
\* advances by 2 * n_points draws: a frame's field is the field of its
\* schedule entry and of the generator's state at the start of its pass,
\* whatever passes ran before, and no pass changes the schedule or the fixed
\* parameters.
C6_PassIsolation ==
    PassDone =>
        /\ x_points = PassX(rng_pass)
        /\ y_points = PassY(rng_pass)
        /\ field = LogField(Histogram2d(x_points, y_points, bins))
        /\ rng = RngAfter(rng_pass, 2 * n_points)
        /\ a = a_values[frame + 1]
        /\ a_values = AValues(total_frames)
        /\ b = FixedB /\ c = FixedC /\ d = FixedD

\* the second pass for frame 0 of a drive gave another field than the first
C6_Witness ==
    /\ PassDone
    /\ drive = <<0, 0>>
    /\ rng_pass # rng_start
    /\ field = PassField(rng_pass)
    /\ field # PassField(rng_start)

\* C10: the GIF save is attempted iff the MP4 step raised, and at most once;
\* whatever the saves do, no exception of theirs leaves the function, which
\* returns the animation.
C10_SaveOutcome ==
    /\ gif_attempts <= 1
    /\ gif_attempts = 1 => mp4_raised
    /\ (mp4_raised /\ pc \in {"saving", "return", "done"}) => gif_attempts = 1
    /\ gif_raised => gif_attempts = 1
    /\ (mp4_raised \/ gif_raised) => result # "raised"
    /\ (pc = "done" /\ stage \in {"mp4", "gif"}) => result = "anim"

\* both saves raised and the function returned the animation
C10_Witness ==
    /\ pc = "done"
    /\ mp4_raised /\ gif_raised
    /\ gif_attempts = 1
    /\ result = "anim"

=============================================================================
